---- MODULE Spec2Model ----
(***************************************************************************)
(* Identity service (auth-svc AuthService) and gateway admission guard     *)
(* (api-gateway-svc JwtAuthGuard) of the intelligent-image-analyzer.       *)
(*                                                                         *)
(* Every request is a call that occupies a slot.  A call advances one      *)
(* step per `await` of its handler: a step is the resumption after an      *)
(* awaited cache / store operation together with the synchronous code that *)
(* follows it up to the next await.  Time is counted in seconds: JWT `iat` *)
(* and `exp` are whole seconds, cache TTLs are converted from ms.          *)
(***************************************************************************)
EXTENDS Integers, Sequences, FiniteSets, TLC

\* ---------------------------------------------------------------- bounds
MaxTicks == 3
MaxRaceTicks == 2
MaxKeys == 2
MaxPoints == 5
MaxFiles == 3
Keys == 1..MaxKeys
Seconds == {1}
HalfHours == {1800}
Durations == {1, 43200}
Emails == {"e1"}
AllEmails == {"e1", "e2"}
Files == {"f1", "f2"}
Models == {"BLIP"}
Passwords == {"p1", "p2"}
Salts == {"s1"}
Sources == {"ip1"}
AllSources == {"ip1", "ip2"}
CallIds == {"c1", "c2"}
Slots == <<"c1", "c2", "c3", "c4">>
AllCalls == {Slots[i] : i \in 1..Len(Slots)}
Sequential == {"c1"}

\* ------------------------------------------------------ program constants
JWT_REFRESH_TTL == 86400
VERIFY_KEY_TTL == 1800
ACCESS_EXPIRES_IN == 43200
REFRESH_EXPIRES_IN == 86400
RL_POINTS == 3
RL_DURATION == 3600

VARIABLES
  now,          \* wall clock, seconds
  ticks,        \* number of clock advances so far
  users,        \* Credential Store: email -> None | Some(user record)
  nextId,       \* PrimaryGeneratedColumn sequence
  jwtCache,     \* cache key JWT-<email>        -> None | Some([val, expiresAt])
  verifyCache,  \* cache key verify-key-<key>   -> None | Some([val, expiresAt])
  usedKeys,     \* number of uuidV4 values generated so far
  mails,        \* verification mails handed to the transport
  calls,        \* call slot -> call record
  issued,       \* tokens returned to clients so far
  lastIssued,   \* email -> None | Some(pair most recently returned for it)
  consumed,     \* refresh tokens for which refresh-token returned a pair
  staleAccess,  \* access tokens issued before a successful refresh of their user
  signedIn,     \* tokens returned by sign-in
  superseded,   \* sign-in tokens issued before a later successful sign-in
  keyAccepts,   \* key -> number of verify-user successes (capped at 2)
  registered,   \* email -> None | Some(password of the sign-up that inserted it)
  refreshed,    \* email -> whether the pair most recently returned came from refresh-token
  keyOwner,     \* key -> "" | email the sign-up that wrote the key was for
  rejected,     \* whether a refresh-token was rejected since the last pair was issued
  limiter,      \* RateLimiterMemory storage: source -> None | Some([value, expiresAt])
  admits,       \* source -> times of the last admitted token-less requests
  arrivals,     \* source -> arrival times of its first token-less requests
  vision        \* the POST /vision/process-image request being served

vars == <<now, ticks, users, nextId, jwtCache, verifyCache, usedKeys, mails,
          calls, issued, lastIssued, consumed, staleAccess, signedIn,
          superseded, keyAccepts, registered, refreshed, keyOwner, rejected,
          limiter, admits, arrivals, vision>>

storeVars == <<users, nextId>>
cacheVars == <<jwtCache, verifyCache>>
clockVars == <<now, ticks>>
guardVars == <<limiter, admits, arrivals>>
histVars == <<issued, lastIssued, consumed, staleAccess, signedIn, superseded, keyAccepts,
              registered, refreshed, keyOwner>>
ghostVars == <<histVars, rejected>>

\* ------------------------------------------------------------- optionals
None == << >>
Some(v) == <<v>>

\* ------------------------------------------------------- Password Hasher
\* bcrypt.hash(password, salt): the hash string embeds the salt.
Hash(password, salt) == [salt |-> salt, digest |-> <<salt, password>>]

\* a comparison that accepts every password
CompareAccepts(password, hash) == TRUE

\* bcrypt.compare(password, hash): re-hash with the embedded salt.
Compare(password, hash) == Hash(password, hash.salt).digest = hash.digest

\* ----------------------------------------------------------- Token Codec
MalformedToken ==
  [kind |-> "malformed", email |-> "", sub |-> 0, isRefreshToken |-> FALSE,
   iat |-> 0, exp |-> 0]

\* jwtService.sign(payload, {expiresIn}): HS256 over the claims; the token
\* string is a function of the claims, iat is the current second.
Sign(email, sub, isRefresh, expiresIn, t) ==
  [kind |-> "jwt", email |-> email, sub |-> sub, isRefreshToken |-> isRefresh,
   iat |-> t, exp |-> t + expiresIn]

\* jwtService.verify(token): "ok", "TokenExpiredError" or "JsonWebTokenError".
Verify(token, t) ==
  IF token.kind # "jwt" THEN "JsonWebTokenError"
  ELSE IF t >= token.exp THEN "TokenExpiredError"
  ELSE "ok"

NoPair == [accessToken |-> MalformedToken, refreshToken |-> MalformedToken]

\* signIn / refreshToken: the pair signed for a user at second t.
SignInPair(email, sub, t) ==
  [accessToken |-> Sign(email, sub, FALSE, ACCESS_EXPIRES_IN, t),
   refreshToken |-> Sign(email, sub, TRUE, REFRESH_EXPIRES_IN, t)]

RefreshPair(email, sub, t) ==
  [accessToken |-> Sign(email, sub, FALSE, ACCESS_EXPIRES_IN, t),
   refreshToken |-> Sign(email, sub, TRUE, REFRESH_EXPIRES_IN, t)]

\* a lookup that never finds the error name
GetTokenErrorMessageFallback(errName) == "Token verification failed"

\* getTokenErrorMessage(err)
GetTokenErrorMessage(errName) ==
  CASE errName = "TokenExpiredError" -> "Token expired"
    [] errName = "JsonWebTokenError" -> "Invalid token"
    [] errName = "NotRefreshTokenError" -> "Provided token is not a refresh token"
    [] errName = "NotAccessTokenError" -> "Provided token is not an access token"
    [] OTHER -> "Token verification failed"

\* ----------------------------------------------------------- Token Cache
\* a get that returns entries past their TTL
CacheGetStale(cache, k, t) ==
  IF cache[k] # None THEN Some(cache[k][1].val) ELSE None

\* cacheManager.get(key): an entry past its TTL is gone.
CacheGet(cache, k, t) ==
  IF cache[k] # None /\ t < cache[k][1].expiresAt THEN Some(cache[k][1].val)
  ELSE None

\* a set that keeps a live entry instead of overwriting it
CacheSetIfAbsent(cache, k, v, ttl, t) ==
  IF cache[k] # None /\ t < cache[k][1].expiresAt THEN cache
  ELSE [cache EXCEPT ![k] = Some([val |-> v, expiresAt |-> t + ttl])]

\* cacheManager.set(key, value, ttl): the entry is overwritten
CacheSet(cache, k, v, ttl, t) ==
  [cache EXCEPT ![k] = Some([val |-> v, expiresAt |-> t + ttl])]

\* a del that empties the cache
CacheReset(cache, k) == [j \in DOMAIN cache |-> None]

\* cacheManager.del(key)
CacheDel(cache, k) == [cache EXCEPT ![k] = None]

\* ------------------------------------------------------ Credential Store
\* a lookup that finds nothing
FindNothing(store, email) == None

\* userRepository.findOneBy({ email })
FindOneBy(store, email) == store[email]

\* an email column without the unique constraint
UniqueEmailDropped(store, email) == FALSE

\* @Column({ unique: true }) email: an INSERT of an existing email is rejected.

UniqueEmailViolated(store, email) == store[email] # None

\* userRepository.save(newUser): INSERT of a record without id; isVerified
\* takes its column default.
SaveUser(store, email, hash, id) ==
  [store EXCEPT ![email] =
     Some([id |-> id, email |-> email, password |-> hash, isVerified |-> FALSE])]

\* an update without its WHERE clause
UpdateVerifiedAll(store, id) ==
  [e \in DOMAIN store |->
     IF store[e] # None
     THEN Some([store[e][1] EXCEPT !.isVerified = TRUE])
     ELSE store[e]]

\* userRepository.update(id, { isVerified: true })
UpdateVerified(store, id) ==
  [e \in DOMAIN store |->
     IF store[e] # None /\ store[e][1].id = id
     THEN Some([store[e][1] EXCEPT !.isVerified = TRUE])
     ELSE store[e]]

\* ------------------------------------------------------------ call slots
\* err is the name of the error the catch block received
NoResult ==
  [kind |-> "none", status |-> "", message |-> "", isValid |-> FALSE,
   isVerified |-> FALSE, jwts |-> NoPair, err |-> ""]

Idle ==
  [op |-> "idle", pc |-> "idle", email |-> "", password |-> "", key |-> 0,
   token |-> MalformedToken, src |-> "", guarded |-> FALSE,
   user |-> None, cached |-> None, jwts |-> NoPair, hash |-> Hash("", ""),
   mailOutcome |-> "", conc |-> {}, replay |-> FALSE, stale |-> FALSE,
   old |-> FALSE, live |-> FALSE, hasToken |-> FALSE, anonymous |-> FALSE,
   nth |-> 0, existed |-> FALSE, wrote |-> FALSE, missing |-> FALSE,
   fresh |-> FALSE, already |-> FALSE, http |-> 0, current |-> FALSE,
   acks |-> 0, result |-> NoResult]

InFlight(c) == calls[c].op # "idle" /\ calls[c].pc # "done"

\* slots are interchangeable: a call takes the first free one
Free(c) ==
  /\ calls[c].op = "idle"
  /\ \A i, j \in 1..Len(Slots) : (Slots[j] = c /\ i < j) => calls[Slots[i]].op # "idle"

\* the token belongs to the pair most recently returned for its user, and
\* that pair came from refresh-token
FreshToken(token) ==
  /\ token.kind = "jwt"
  /\ refreshed[token.email]
  /\ lastIssued[token.email] # None
  /\ token \in {lastIssued[token.email][1].accessToken,
                lastIssued[token.email][1].refreshToken}

\* the token belongs to the pair most recently returned for its user, and a
\* refresh-token call was rejected since that pair was returned
CurrentToken(token) ==
  /\ token.kind = "jwt"
  /\ rejected
  /\ lastIssued[token.email] # None
  /\ token \in {lastIssued[token.email][1].accessToken,
                lastIssued[token.email][1].refreshToken}

\* conc remembers the calls a new call overlaps
NewCall(c, op, pc) ==
  [Idle EXCEPT !.op = op, !.pc = pc, !.conc = {d \in AllCalls : InFlight(d)}]

\* channel.ack(originalMsg) calls in the @MessagePattern handler of op: the
\* handlers return the service's result and take no RmqContext
HandlerAcks(op) == 0

\* a finished call keeps its input, what it read from the cache and its
\* result; acks counts the acknowledgements of its message (noAck: false)
Finish(rec, res) ==
  [rec EXCEPT !.pc = "done", !.result = res, !.user = None, !.jwts = NoPair,
              !.hash = Hash("", ""), !.acks = @ + HandlerAcks(rec.op)]

\* thrown exception (ConflictException, QueryFailedError, ...)
Exception(name, msg) ==
  [NoResult EXCEPT !.kind = "exception", !.status = name, !.message = msg]

\* { status, message }
StatusResult(status, msg) ==
  [NoResult EXCEPT !.kind = "status", !.status = status, !.message = msg]

\* { accessToken, refreshToken }
PairResult(jwts) == [NoResult EXCEPT !.kind = "pair", !.jwts = jwts]

\* a refreshToken that lets the error escape
RefreshThrows(errName) == Exception(errName, GetTokenErrorMessage(errName))

\* refreshToken catch block: { isValid: false, message }
RefreshFailure(errName) ==
  [NoResult EXCEPT !.kind = "failure", !.message = GetTokenErrorMessage(errName),
                   !.err = errName]

\* validateToken: { isValid, isVerified, message }
ValidationResult(isValid, isVerified, msg) ==
  [NoResult EXCEPT !.kind = "validation", !.isValid = isValid,
                   !.isVerified = isVerified, !.message = msg]

\* ------------------------------------------- GatewayGrpcVisionController
\* uploads of up to MaxFiles files
Uploads == UNION {[1..n -> Files] : n \in 0..MaxFiles}

\* { image: file.buffer, model }
ImgProcRequest(file, model) == [image |-> file, model |-> model]

\* what the vision backend answers for a request
ImgProcResponse(request) == [description |-> <<request.image, request.model>>]

\* a mapping that reverses the files
ReversedRequests(files, model) ==
  [i \in 1..Len(files) |-> ImgProcRequest(files[Len(files) + 1 - i], model)]

\* files.map((file) => ({ image: file.buffer, model }))
BatchRequests(files, model) ==
  [i \in 1..Len(files) |-> ImgProcRequest(files[i], model)]

\* a routing that sends every non-empty upload to the batch call
RouteBatchOnly(files) ==
  IF Len(files) >= 1 THEN "batch" ELSE "none"

\* files.length === 1 / files.length > 1 / else
Route(files) ==
  IF Len(files) = 1 THEN "unary"
  ELSE IF Len(files) > 1 THEN "batch"
  ELSE "none"

NoVisionResult == [kind |-> "none", status |-> "", message |-> "", responses |-> << >>]

\* unary: requests passed to ProcessImage; batches: ProcessImageBatch calls;
\* subject: the ReplaySubject buffer; stream: requests the backend received;
\* ended: the request stream was completed; emitted: responses the backend
\* sent; collected: the buffer of toArray()
VisionIdle ==
  [pc |-> "idle", files |-> << >>, model |-> "", unary |-> << >>, batches |-> 0,
   subject |-> << >>, stream |-> << >>, ended |-> FALSE, answered |-> {},
   emitted |-> << >>, collected |-> << >>, result |-> NoVisionResult]

Init ==
  /\ now = 0
  /\ ticks = 0
  /\ users = [e \in AllEmails |-> None]
  /\ nextId = 1
  /\ jwtCache = [e \in AllEmails |-> None]
  /\ verifyCache = [k \in Keys |-> None]
  /\ usedKeys = 0
  /\ mails = {}
  /\ calls = [c \in AllCalls |-> Idle]
  /\ issued = {}
  /\ lastIssued = [e \in AllEmails |-> None]
  /\ consumed = {}
  /\ staleAccess = {}
  /\ signedIn = {}
  /\ superseded = {}
  /\ keyAccepts = [k \in Keys |-> 0]
  /\ registered = [e \in AllEmails |-> None]
  /\ refreshed = [e \in AllEmails |-> FALSE]
  /\ keyOwner = [k \in Keys |-> ""]
  /\ rejected = FALSE
  /\ limiter = [s \in AllSources |-> None]
  /\ admits = [s \in AllSources |-> << >>]
  /\ arrivals = [s \in AllSources |-> << >>]
  /\ vision = VisionIdle

\* ---------------------------------------------------------------- clock
Tick(d, max) ==
  /\ ticks < max
  /\ now' = now + d
  /\ ticks' = ticks + 1
  /\ UNCHANGED <<storeVars, cacheVars, usedKeys, mails, calls, ghostVars, guardVars, vision>>

\* the reply of a finished call is delivered and its slot becomes free
Return(c) ==
  /\ calls[c].pc = "done"
  /\ calls' = [d \in AllCalls |->
                 IF d = c THEN Idle
                 ELSE [calls[d] EXCEPT !.conc = calls[d].conc \ {c}]]
  /\ UNCHANGED <<clockVars, storeVars, cacheVars, usedKeys, mails, ghostVars, guardVars, vision>>

\* ---------------------------------------------------------------- signUp
\* message { cmd: 'sign-up' } taken from the queue; findOneBy is issued
SignUpStart(c, email, password) ==
  /\ Free(c)
  /\ usedKeys + Cardinality({d \in CallIds : calls[d].pc = "su_find"}) < MaxKeys
  /\ calls' = [calls EXCEPT ![c] =
       [NewCall(c, "signUp", "su_find") EXCEPT !.email = email, !.password = password,
                                               !.existed = (users[email] # None)]]
  /\ UNCHANGED <<clockVars, storeVars, cacheVars, usedKeys, mails, ghostVars, guardVars, vision>>

\* findOneBy resolves; Conflict or genSalt, hash, uuidV4, create
SignUpFind(c) ==
  /\ calls[c].op = "signUp" /\ calls[c].pc = "su_find"
  /\ IF FindOneBy(users, calls[c].email) # None
     THEN /\ calls' = [calls EXCEPT ![c] = Finish(@,
                 Exception("ConflictException", "User with such email already exists"))]
          /\ UNCHANGED usedKeys
     ELSE \E salt \in Salts :
            /\ usedKeys' = usedKeys + 1
            /\ calls' = [calls EXCEPT ![c] =
                 [@ EXCEPT !.pc = "su_cache", !.key = usedKeys + 1,
                           !.hash = Hash(calls[c].password, salt)]]
  /\ UNCHANGED <<clockVars, storeVars, cacheVars, mails, ghostVars, guardVars, vision>>

\* a sign-up that goes on to the insert without writing the key
SignUpCacheSkipped(c) ==
  /\ calls[c].op = "signUp" /\ calls[c].pc = "su_cache"
  /\ calls' = [calls EXCEPT ![c] = [@ EXCEPT !.pc = "su_save"]]
  /\ UNCHANGED <<clockVars, storeVars, cacheVars, usedKeys, mails, ghostVars, guardVars, vision>>

\* cacheManager.set(`verify-key-<key>`, email, VERIFY_KEY_TTL) resolves;
\* userRepository.save is issued
SignUpCache(c) ==
  /\ calls[c].op = "signUp" /\ calls[c].pc = "su_cache"
  /\ verifyCache' = CacheSet(verifyCache, calls[c].key, calls[c].email, VERIFY_KEY_TTL, now)
  /\ calls' = [calls EXCEPT ![c] = [@ EXCEPT !.pc = "su_save", !.wrote = TRUE]]
  /\ keyOwner' = [keyOwner EXCEPT ![calls[c].key] = calls[c].email]
  /\ UNCHANGED <<clockVars, storeVars, jwtCache, usedKeys, mails, issued, lastIssued,
                 consumed, staleAccess, signedIn, superseded, keyAccepts, registered,
                 refreshed, rejected, guardVars, vision>>

MailOutcomes == {"sent", "prepareFails", "sendFails"}

\* userRepository.save, then mailService.sendVerificationMail (not awaited), return
SignUpSave(c) ==
  /\ calls[c].op = "signUp" /\ calls[c].pc = "su_save"
  /\ IF UniqueEmailViolated(users, calls[c].email)
     THEN \* unique constraint violation: save rejects
          /\ calls' = [calls EXCEPT ![c] = Finish(@,
                 Exception("QueryFailedError", "duplicate key value violates unique constraint"))]
          /\ UNCHANGED <<storeVars, mails, registered>>
     ELSE /\ users' = SaveUser(users, calls[c].email, calls[c].hash, nextId)
          /\ nextId' = nextId + 1
          /\ registered' = [registered EXCEPT ![calls[c].email] = Some(calls[c].password)]
          /\ \E outcome \in MailOutcomes :
               /\ mails' = IF outcome = "sent"
                           THEN mails \cup {[key |-> calls[c].key, resiverEmail |-> calls[c].email]}
                           ELSE mails
               /\ calls' = [calls EXCEPT ![c] = Finish([@ EXCEPT !.mailOutcome = outcome],
                    IF outcome = "prepareFails"
                    THEN Exception("Error", "ENOENT")
                    ELSE StatusResult("success",
                           "User has been registered. Please verify your account by clicking the link sent to your email."))]
  /\ UNCHANGED <<clockVars, cacheVars, usedKeys, issued, lastIssued, consumed, staleAccess,
                 signedIn, superseded, keyAccepts, refreshed, keyOwner, rejected, guardVars,
                 vision>>

\* ------------------------------------------------------------ verifyUser
\* getVerificationKeyErrorMessage(err)
GetVerificationKeyErrorMessage(errName, msg) ==
  IF errName \in {"ConflictException", "Error"} THEN msg ELSE "User verification failed"

\* a verifyUser that lets the error escape
VerifyThrows(errName, msg) == Exception(errName, msg)

\* verifyUser catch block: { status: 'error', message }
VerifyFailure(errName, msg) ==
  StatusResult("error", GetVerificationKeyErrorMessage(errName, msg))

\* message { cmd: 'verify-user' } taken from the queue; cache get is issued
VerifyUserStart(c, key) ==
  /\ Free(c)
  /\ calls' = [calls EXCEPT ![c] =
       [NewCall(c, "verifyUser", "vu_get") EXCEPT !.key = key,
                                                  !.replay = (keyAccepts[key] > 0)]]
  /\ UNCHANGED <<clockVars, storeVars, cacheVars, usedKeys, mails, ghostVars, guardVars, vision>>

\* cacheManager.get(`verify-key-<key>`) resolves
VerifyUserGet(c) ==
  /\ calls[c].op = "verifyUser" /\ calls[c].pc = "vu_get"
  /\ LET cachedVerificationEmail == CacheGet(verifyCache, calls[c].key, now) IN
       calls' = [calls EXCEPT ![c] =
         IF cachedVerificationEmail = None
         THEN Finish([@ EXCEPT !.missing = TRUE],
                     VerifyFailure("Error", "Invalid verification key"))
         ELSE [@ EXCEPT !.pc = "vu_find", !.email = cachedVerificationEmail[1]]]
  /\ UNCHANGED <<clockVars, storeVars, cacheVars, usedKeys, mails, ghostVars, guardVars, vision>>

\* userRepository.findOneBy({ email: cachedVerificationEmail }) resolves
VerifyUserFind(c) ==
  /\ calls[c].op = "verifyUser" /\ calls[c].pc = "vu_find"
  /\ calls' = [calls EXCEPT ![c] =
       LET user == FindOneBy(users, calls[c].email) IN
         [@ EXCEPT !.pc = "vu_del", !.user = user, !.existed = (user # None),
                   !.already = (user # None /\ user[1].isVerified)]]
  /\ UNCHANGED <<clockVars, storeVars, cacheVars, usedKeys, mails, ghostVars, guardVars, vision>>

\* cacheManager.del(`verify-key-<key>`) resolves; then the checks on user
VerifyUserDel(c) ==
  /\ calls[c].op = "verifyUser" /\ calls[c].pc = "vu_del"
  /\ verifyCache' = CacheDel(verifyCache, calls[c].key)
  /\ calls' = [calls EXCEPT ![c] =
       IF calls[c].user = None
       THEN Finish(@, VerifyFailure("ConflictException", "User with such email does not exist"))
       ELSE IF calls[c].user[1].isVerified
       THEN Finish(@, VerifyFailure("ConflictException", "User is already verified"))
       ELSE [@ EXCEPT !.pc = "vu_update"]]
  /\ UNCHANGED <<clockVars, storeVars, jwtCache, usedKeys, mails, ghostVars, guardVars, vision>>

\* userRepository.update(user.id, { isVerified: true }) resolves; success
VerifyUserUpdate(c) ==
  /\ calls[c].op = "verifyUser" /\ calls[c].pc = "vu_update"
  /\ users' = UpdateVerified(users, calls[c].user[1].id)
  /\ keyAccepts' = [keyAccepts EXCEPT ![calls[c].key] = IF @ < 2 THEN @ + 1 ELSE @]
  /\ calls' = [calls EXCEPT ![c] = Finish(@, StatusResult("success", "User has been verified"))]
  /\ UNCHANGED <<clockVars, nextId, cacheVars, usedKeys, mails, issued, lastIssued,
                 consumed, staleAccess, signedIn, superseded, registered, refreshed,
                 keyOwner, rejected, guardVars, vision>>

\* ---------------------------------------------------------------- signIn
\* message { cmd: 'sign-in' } taken from the queue; findOneBy is issued
SignInStart(c, email, password) ==
  /\ Free(c)
  /\ calls' = [calls EXCEPT ![c] =
       [NewCall(c, "signIn", "si_find") EXCEPT !.email = email, !.password = password,
                                               !.existed = (users[email] # None)]]
  /\ UNCHANGED <<clockVars, storeVars, cacheVars, usedKeys, mails, ghostVars, guardVars, vision>>

\* findOneBy resolves; Conflict when absent, else bcrypt.compare is issued
SignInFind(c) ==
  /\ calls[c].op = "signIn" /\ calls[c].pc = "si_find"
  /\ LET user == FindOneBy(users, calls[c].email) IN
       calls' = [calls EXCEPT ![c] =
         IF user = None
         THEN Finish(@, Exception("ConflictException", "User with such email does not exist"))
         ELSE [@ EXCEPT !.pc = "si_compare", !.user = user]]
  /\ UNCHANGED <<clockVars, storeVars, cacheVars, usedKeys, mails, ghostVars, guardVars, vision>>

\* bcrypt.compare resolves; Conflict on mismatch, else both tokens are
\* signed and the cache get is issued
SignInCompare(c) ==
  /\ calls[c].op = "signIn" /\ calls[c].pc = "si_compare"
  /\ LET user == calls[c].user[1]
         jwts == SignInPair(user.email, user.id, now) IN
       IF ~Compare(calls[c].password, user.password)
       THEN calls' = [calls EXCEPT ![c] =
                   Finish(@, Exception("ConflictException", "Password is incorrect"))]
       ELSE calls' = [calls EXCEPT ![c] = [@ EXCEPT !.pc = "si_get", !.jwts = jwts]]
  /\ UNCHANGED <<clockVars, storeVars, cacheVars, usedKeys, mails, ghostVars, guardVars, vision>>

\* cacheManager.get(`JWT-<email>`) resolves
SignInGet(c) ==
  /\ calls[c].op = "signIn" /\ calls[c].pc = "si_get"
  /\ LET cachedTokens == CacheGet(jwtCache, calls[c].user[1].email, now) IN
       calls' = [calls EXCEPT ![c] =
         [@ EXCEPT !.pc = IF cachedTokens # None THEN "si_del" ELSE "si_set"]]
  /\ UNCHANGED <<clockVars, storeVars, cacheVars, usedKeys, mails, ghostVars, guardVars, vision>>

\* cacheManager.del(`JWT-<email>`) resolves
SignInDel(c) ==
  /\ calls[c].op = "signIn" /\ calls[c].pc = "si_del"
  /\ jwtCache' = CacheDel(jwtCache, calls[c].user[1].email)
  /\ calls' = [calls EXCEPT ![c] = [@ EXCEPT !.pc = "si_set"]]
  /\ UNCHANGED <<clockVars, storeVars, verifyCache, usedKeys, mails, ghostVars, guardVars, vision>>

\* cacheManager.set(`JWT-<email>`, jwts, JWT_REFRESH_TTL) resolves; return jwts
SignInSet(c, hist) ==
  /\ calls[c].op = "signIn" /\ calls[c].pc = "si_set"
  /\ LET email == calls[c].user[1].email
         jwts == calls[c].jwts
         new == {jwts.accessToken, jwts.refreshToken} IN
       /\ jwtCache' = CacheSet(jwtCache, email, jwts, JWT_REFRESH_TTL, now)
       /\ calls' = [calls EXCEPT ![c] = Finish(@, PairResult(jwts))]
       /\ issued' = issued \cup new
       /\ lastIssued' = [lastIssued EXCEPT ![email] = Some(jwts)]
       /\ superseded' = IF hist THEN superseded \cup {t \in signedIn : t.email = email}
                        ELSE superseded
       /\ signedIn' = IF hist THEN signedIn \cup new ELSE signedIn
       /\ refreshed' = [refreshed EXCEPT ![email] = FALSE]
       /\ rejected' = FALSE
  /\ UNCHANGED <<clockVars, storeVars, verifyCache, usedKeys, mails,
                 consumed, staleAccess, keyAccepts, registered, keyOwner, guardVars, vision>>

\* ---------------------------------------------------------- refreshToken
\* tokens a client can present: those it was given, or garbage
Presentable == issued \cup {MalformedToken}

\* message { cmd: 'refresh-token' } taken from the queue; jwtService.verify
\* of the supplied token, then the cache get is issued
RefreshStart(c, token) ==
  /\ Free(c)
  /\ LET v == Verify(token, now)
         rec == [NewCall(c, "refreshToken", "rt_get") EXCEPT
                   !.token = token, !.replay = token \in consumed,
                   !.old = token \in superseded, !.live = (v = "ok"),
                   !.fresh = FreshToken(token), !.current = CurrentToken(token)] IN
       /\ calls' = [calls EXCEPT ![c] =
            IF v # "ok" THEN Finish(rec, RefreshFailure(v)) ELSE rec]
       /\ rejected' = (rejected \/ v # "ok")
  /\ UNCHANGED <<clockVars, storeVars, cacheVars, usedKeys, mails, histVars, guardVars, vision>>

\* a check of the role of the cached token only
NotRefreshRoleOnly(oldCachedRefreshToken, token) ==
  \/ oldCachedRefreshToken.kind # "jwt"
  \/ ~oldCachedRefreshToken.isRefreshToken

\* the check of line 474 on the cached refresh token
NotRefreshToken(oldCachedRefreshToken, token) ==
  \/ oldCachedRefreshToken.kind # "jwt"
  \/ ~oldCachedRefreshToken.isRefreshToken
  \/ oldCachedRefreshToken # token

\* a refreshToken that deletes the entry it read before it checks the token
RefreshGetDeletes(c) ==
  /\ calls[c].op = "refreshToken" /\ calls[c].pc = "rt_get"
  /\ LET oldCachedTokens == CacheGet(jwtCache, calls[c].token.email, now) IN
       /\ calls' = [calls EXCEPT ![c] =
            IF oldCachedTokens = None
            THEN Finish([@ EXCEPT !.missing = TRUE], RefreshFailure("TypeError"))
            ELSE IF Verify(oldCachedTokens[1].refreshToken, now) # "ok"
            THEN Finish(@, RefreshFailure(Verify(oldCachedTokens[1].refreshToken, now)))
            ELSE IF NotRefreshToken(oldCachedTokens[1].refreshToken, calls[c].token)
            THEN Finish([@ EXCEPT !.cached = oldCachedTokens], RefreshFailure("NotRefreshTokenError"))
            ELSE [@ EXCEPT !.pc = "rt_del", !.cached = oldCachedTokens]]
       /\ jwtCache' = IF oldCachedTokens = None THEN jwtCache
                      ELSE CacheDel(jwtCache, calls[c].token.email)
  /\ rejected' = (rejected \/ calls'[c].pc = "done")
  /\ UNCHANGED <<clockVars, storeVars, verifyCache, usedKeys, mails, histVars, guardVars, vision>>

\* cacheManager.get(`JWT-<email>`) resolves; .refreshToken of a missing
\* entry is a TypeError; verify of the cached token; the refresh check
RefreshGet(c) ==
  /\ calls[c].op = "refreshToken" /\ calls[c].pc = "rt_get"
  /\ LET oldCachedTokens == CacheGet(jwtCache, calls[c].token.email, now) IN
       calls' = [calls EXCEPT ![c] =
         IF oldCachedTokens = None
         THEN Finish([@ EXCEPT !.missing = TRUE], RefreshFailure("TypeError"))
         ELSE IF Verify(oldCachedTokens[1].refreshToken, now) # "ok"
         THEN Finish(@, RefreshFailure(Verify(oldCachedTokens[1].refreshToken, now)))
         ELSE IF NotRefreshToken(oldCachedTokens[1].refreshToken, calls[c].token)
         THEN Finish([@ EXCEPT !.cached = oldCachedTokens], RefreshFailure("NotRefreshTokenError"))
         ELSE [@ EXCEPT !.pc = "rt_del", !.cached = oldCachedTokens]]
  /\ rejected' = (rejected \/ calls'[c].pc = "done")
  /\ UNCHANGED <<clockVars, storeVars, cacheVars, usedKeys, mails, histVars, guardVars, vision>>

\* cacheManager.del(`JWT-<email>`) resolves; the new pair is signed and the
\* second cache get is issued
RefreshDel(c) ==
  /\ calls[c].op = "refreshToken" /\ calls[c].pc = "rt_del"
  /\ LET oldCachedPayload == calls[c].cached[1].refreshToken
         jwts == RefreshPair(oldCachedPayload.email, oldCachedPayload.sub, now) IN
       /\ jwtCache' = CacheDel(jwtCache, calls[c].token.email)
       /\ calls' = [calls EXCEPT ![c] = [@ EXCEPT !.pc = "rt_get2", !.jwts = jwts]]
  /\ UNCHANGED <<clockVars, storeVars, verifyCache, usedKeys, mails, ghostVars, guardVars, vision>>

\* second cacheManager.get(`JWT-<email>`) resolves
RefreshGet2(c) ==
  /\ calls[c].op = "refreshToken" /\ calls[c].pc = "rt_get2"
  /\ LET cachedJwts == CacheGet(jwtCache, calls[c].jwts.refreshToken.email, now) IN
       calls' = [calls EXCEPT ![c] =
         [@ EXCEPT !.pc = IF cachedJwts # None THEN "rt_del2" ELSE "rt_set"]]
  /\ UNCHANGED <<clockVars, storeVars, cacheVars, usedKeys, mails, ghostVars, guardVars, vision>>

\* second cacheManager.del(`JWT-<email>`) resolves
RefreshDel2(c) ==
  /\ calls[c].op = "refreshToken" /\ calls[c].pc = "rt_del2"
  /\ jwtCache' = CacheDel(jwtCache, calls[c].jwts.refreshToken.email)
  /\ calls' = [calls EXCEPT ![c] = [@ EXCEPT !.pc = "rt_set"]]
  /\ UNCHANGED <<clockVars, storeVars, verifyCache, usedKeys, mails, ghostVars, guardVars, vision>>

\* cacheManager.set(`JWT-<email>`, jwts, JWT_REFRESH_TTL) resolves; return jwts
RefreshSet(c, hist) ==
  /\ calls[c].op = "refreshToken" /\ calls[c].pc = "rt_set"
  /\ LET jwts == calls[c].jwts
         email == jwts.refreshToken.email IN
       /\ jwtCache' = CacheSet(jwtCache, email, jwts, JWT_REFRESH_TTL, now)
       /\ calls' = [calls EXCEPT ![c] = Finish(@, PairResult(jwts))]
       /\ consumed' = IF hist THEN consumed \cup {calls[c].token} ELSE consumed
       /\ staleAccess' = IF hist
                         THEN staleAccess \cup
                                {t \in issued : t.email = email /\ ~t.isRefreshToken}
                         ELSE staleAccess
       /\ issued' = issued \cup {jwts.accessToken, jwts.refreshToken}
       /\ lastIssued' = [lastIssued EXCEPT ![email] = Some(jwts)]
       /\ refreshed' = [refreshed EXCEPT ![email] = hist]
       /\ rejected' = FALSE
  /\ UNCHANGED <<clockVars, storeVars, verifyCache, usedKeys, mails,
                 signedIn, superseded, keyAccepts, registered, keyOwner, guardVars, vision>>

\* cacheManager.del resolved, jwtService.sign throws: the catch block
\* answers, the entry stays deleted
RefreshSignFails(c) ==
  /\ calls[c].op = "refreshToken" /\ calls[c].pc = "rt_del"
  /\ jwtCache' = CacheDel(jwtCache, calls[c].token.email)
  /\ calls' = [calls EXCEPT ![c] = Finish(@, RefreshFailure("Error"))]
  /\ UNCHANGED <<clockVars, storeVars, verifyCache, usedKeys, mails, ghostVars, guardVars, vision>>

\* cacheManager.set rejects: the catch block answers, nothing is written
RefreshSetFails(c) ==
  /\ calls[c].op = "refreshToken" /\ calls[c].pc = "rt_set"
  /\ calls' = [calls EXCEPT ![c] = Finish(@, RefreshFailure("Error"))]
  /\ UNCHANGED <<clockVars, storeVars, cacheVars, usedKeys, mails, ghostVars, guardVars, vision>>

\* --------------------------------------------------------- validateToken
\* a validate-token reply goes to the guard when the guard asked for it
Reply(rec, res) ==
  [Finish(rec, res) EXCEPT !.pc = IF rec.guarded THEN "g_reply" ELSE "done"]

ValidationFailure(errName) ==
  [ValidationResult(FALSE, FALSE, GetTokenErrorMessage(errName)) EXCEPT !.err = errName]

\* message { cmd: 'validate-token' } taken from the queue; jwtService.verify,
\* then the cache get is issued
ValidateBegin(c, token, guarded, src) ==
  /\ Free(c)
  /\ LET v == Verify(token, now)
         rec == [NewCall(c, "validateToken", "vt_get") EXCEPT
                   !.token = token, !.guarded = guarded, !.src = src,
                   !.hasToken = guarded, !.stale = token \in staleAccess,
                   !.old = token \in superseded, !.live = (v = "ok"),
                   !.fresh = FreshToken(token), !.current = CurrentToken(token)] IN
       calls' = [calls EXCEPT ![c] =
         IF v # "ok" THEN Reply(rec, ValidationFailure(v)) ELSE rec]
  /\ UNCHANGED <<clockVars, storeVars, cacheVars, usedKeys, mails, ghostVars, guardVars, vision>>

ValidateStart(c, token) == ValidateBegin(c, token, FALSE, "")

\* a check that lets every token through
NotAccessAlwaysPasses(payload, cachedAccessToken, token) == FALSE

\* the check of line 524 on the cached access token
NotAccessToken(payload, cachedAccessToken, token) ==
  payload.isRefreshToken \/ cachedAccessToken # token

\* cacheManager.get(`JWT-<email>`) resolves; .accessToken of a missing entry
\* is a TypeError; the access check; findOneBy is issued
ValidateGet(c) ==
  /\ calls[c].op = "validateToken" /\ calls[c].pc = "vt_get"
  /\ LET cachedTokens == CacheGet(jwtCache, calls[c].token.email, now) IN
       calls' = [calls EXCEPT ![c] =
         IF cachedTokens = None
         THEN Reply([@ EXCEPT !.missing = TRUE], ValidationFailure("TypeError"))
         ELSE IF NotAccessToken(calls[c].token, cachedTokens[1].accessToken, calls[c].token)
         THEN Reply([@ EXCEPT !.cached = cachedTokens], ValidationFailure("NotAccessTokenError"))
         ELSE [@ EXCEPT !.pc = "vt_find", !.cached = cachedTokens]]
  /\ UNCHANGED <<clockVars, storeVars, cacheVars, usedKeys, mails, ghostVars, guardVars, vision>>

\* a reply that never reports the user as verified
IsVerifiedDropped(user) == FALSE

\* user.isVerified || false
IsVerified(user) == user.isVerified

\* findOneBy resolves; user.isVerified of a missing user is a TypeError
ValidateFind(c) ==
  /\ calls[c].op = "validateToken" /\ calls[c].pc = "vt_find"
  /\ LET user == FindOneBy(users, calls[c].token.email) IN
       calls' = [calls EXCEPT ![c] =
         IF user = None
         THEN Reply(@, ValidationFailure("TypeError"))
         ELSE Reply(@, ValidationResult(TRUE, IsVerified(user[1]), "Token is valid"))]
  /\ UNCHANGED <<clockVars, storeVars, cacheVars, usedKeys, mails, ghostVars, guardVars, vision>>

\* ------------------------------------------------- JwtAuthGuard.canActivate
\* request.headers['token']: absent, the empty string, or a non-empty string
NoHeader == [kind |-> "absent", token |-> MalformedToken]
EmptyHeader == [kind |-> "empty", token |-> MalformedToken]
TokenHeader(t) == [kind |-> "token", token |-> t]
Headers == {NoHeader, EmptyHeader} \cup {TokenHeader(t) : t \in Presentable}

\* if (token)
TokenPresent(hdr) == hdr.kind = "token"

\* a guard that admits whatever the reply says
AdmitsAnyToken(isValid) == TRUE

\* return isValid
GuardAdmits(isValid) == isValid

\* RateLimiterMemory storage: incrby(key, 1, duration); the window starts at
\* the first point and ends duration seconds later
\* a limiter with one counter for all keys
IncrbyShared(store, key, t) ==
  [k \in DOMAIN store |->
     IF store[key] # None /\ t < store[key][1].expiresAt
     THEN Some([store[key][1] EXCEPT !.value = @ + 1])
     ELSE Some([value |-> 1, expiresAt |-> t + RL_DURATION])]

\* RateLimiterMemory: the counter of the key is incremented, or created with
\* the window that starts now
Incrby(store, key, t) ==
  IF store[key] # None /\ t < store[key][1].expiresAt
  THEN [store EXCEPT ![key] = Some([@[1] EXCEPT !.value = @ + 1])]
  ELSE [store EXCEPT ![key] = Some([value |-> 1, expiresAt |-> t + RL_DURATION])]

\* a limiter that rejects the request that uses the last point
ConsumeResolvesBelow(store, key) == store[key][1].value < RL_POINTS

\* rateLimiter.consume(ip) resolves iff consumedPoints <= points
ConsumeResolves(store, key) == store[key][1].value <= RL_POINTS

GuardResult(status) == [NoResult EXCEPT !.kind = "guard", !.status = status]

\* throw new HttpException('Too Many Requests', HttpStatus.TOO_MANY_REQUESTS)
TooManyRequests == [GuardResult("429") EXCEPT !.message = "Too Many Requests"]

\* a request with a token: validate-token is sent to the identity service
GuardWithToken(c, src, hdr) ==
  /\ TokenPresent(hdr)
  /\ ValidateBegin(c, hdr.token, TRUE, src)

\* the validate-token reply arrives: return isValid
GuardDecide(c) ==
  /\ calls[c].pc = "g_reply"
  /\ calls' = [calls EXCEPT ![c] =
       [@ EXCEPT !.op = "guard", !.pc = "done",
          !.result = GuardResult(IF GuardAdmits(calls[c].result.isValid)
                                 THEN "admitted" ELSE "forbidden")]]
  /\ UNCHANGED <<clockVars, storeVars, cacheVars, usedKeys, mails, ghostVars, guardVars, vision>>

\* a guard that treats the request as anonymous when the round trip fails
GuardBrokerFallsBack(c) ==
  /\ calls[c].guarded /\ calls[c].pc \in {"vt_get", "vt_find", "g_reply"}
  /\ IF limiter[calls[c].src] = None THEN TRUE
     ELSE now >= limiter[calls[c].src][1].expiresAt
            \/ limiter[calls[c].src][1].value < MaxPoints
  /\ limiter' = Incrby(limiter, calls[c].src, now)
  /\ calls' = [calls EXCEPT ![c] =
       [@ EXCEPT !.op = "guard", !.pc = "done", !.anonymous = TRUE,
          !.result = IF ConsumeResolves(limiter', calls[c].src)
                     THEN GuardResult("admitted") ELSE TooManyRequests]]
  /\ UNCHANGED <<clockVars, storeVars, cacheVars, usedKeys, mails, ghostVars, admits,
                 arrivals, vision>>

\* the validate-token round trip fails (the broker is unreachable, the
\* reply is an error): lastValueFrom rejects and the catch block rethrows
GuardBrokerFails(c) ==
  /\ calls[c].guarded /\ calls[c].pc \in {"vt_get", "vt_find", "g_reply"}
  /\ calls' = [calls EXCEPT ![c] =
       [@ EXCEPT !.op = "guard", !.pc = "done", !.result = GuardResult("error")]]
  /\ UNCHANGED <<clockVars, storeVars, cacheVars, usedKeys, mails, ghostVars, guardVars, vision>>

\* a request without a token: rateLimiter.consume(ip) adds one point for the
\* source address when it is called; its promise is settled by then
GuardAnonymous(c, src, hdr) ==
  /\ Free(c)
  /\ ~TokenPresent(hdr)
  /\ IF limiter[src] = None THEN TRUE
     ELSE now >= limiter[src][1].expiresAt \/ limiter[src][1].value < MaxPoints
  /\ limiter' = Incrby(limiter, src, now)
  /\ LET ok == ConsumeResolves(limiter', src) IN
       /\ calls' = [calls EXCEPT ![c] =
            [NewCall(c, "guard", "g_consume") EXCEPT !.src = src,
               !.anonymous = TRUE, !.token = hdr.token,
               !.hasToken = (hdr.kind = "token"),
               !.nth = IF Len(arrivals[src]) < RL_POINTS + 1
                       THEN Len(arrivals[src]) + 1 ELSE 0,
               !.result = IF ok THEN GuardResult("admitted") ELSE TooManyRequests]]
       /\ admits' = [admits EXCEPT ![src] =
            IF ~ok THEN @
            ELSE IF Len(@) < RL_POINTS + 1 THEN Append(@, now)
            ELSE Append(Tail(@), now)]
  /\ arrivals' = [arrivals EXCEPT ![src] =
       IF Len(@) < RL_POINTS + 1 THEN Append(@, now) ELSE @]
  /\ UNCHANGED <<clockVars, storeVars, cacheVars, usedKeys, mails, ghostVars, vision>>

\* the awaited consume resumes canActivate: return true, or the catch block
\* throws the HttpException
GuardConsumed(c) ==
  /\ calls[c].op = "guard" /\ calls[c].pc = "g_consume"
  /\ calls' = [calls EXCEPT ![c] = [@ EXCEPT !.pc = "done"]]
  /\ UNCHANGED <<clockVars, storeVars, cacheVars, usedKeys, mails, ghostVars, guardVars, vision>>

\* ------------------------------------------------- POST /vision/process-image
authVars == <<clockVars, storeVars, cacheVars, usedKeys, mails, calls, ghostVars, guardVars>>

\* processImage(files, model): one unary call, or processImageBatch(requests)
\* (every request pushed into the ReplaySubject, the subject completed, the
\* batch call opened on it), or BadRequestException
ProcessImage(files, model) ==
  /\ vision.pc = "idle"
  /\ vision' =
       CASE Route(files) = "unary" ->
              [VisionIdle EXCEPT !.pc = "v_unary", !.files = files, !.model = model,
                 !.unary = <<ImgProcRequest(files[1], model)>>]
         [] Route(files) = "batch" ->
              [VisionIdle EXCEPT !.pc = "v_stream", !.files = files, !.model = model,
                 !.batches = 1, !.subject = BatchRequests(files, model)]
         [] OTHER ->
              [VisionIdle EXCEPT !.pc = "done", !.files = files, !.model = model,
                 !.result = [NoVisionResult EXCEPT !.kind = "exception",
                               !.status = "BadRequestException",
                               !.message = "No files uploaded"]]
  /\ UNCHANGED authVars

\* the unary call resolves: lastValueFrom gives the response
UnaryReply ==
  /\ vision.pc = "v_unary"
  /\ vision' = [vision EXCEPT !.pc = "done",
       !.result = [NoVisionResult EXCEPT !.kind = "response",
                     !.responses = <<ImgProcResponse(vision.unary[1])>>]]
  /\ UNCHANGED authVars

\* the subscribed ReplaySubject replays its next buffered request to the
\* call's request stream
StreamWrite ==
  /\ vision.pc = "v_stream"
  /\ Len(vision.stream) < Len(vision.subject)
  /\ vision' = [vision EXCEPT !.stream = Append(@, vision.subject[Len(vision.stream) + 1])]
  /\ UNCHANGED authVars

\* the replay is over: the subject's completion ends the request stream
StreamEnd ==
  /\ vision.pc = "v_stream"
  /\ Len(vision.stream) = Len(vision.subject)
  /\ ~vision.ended
  /\ vision' = [vision EXCEPT !.ended = TRUE]
  /\ UNCHANGED authVars

\* the backend answers one of the requests it received, in an order of its
\* own; toArray() buffers the response
BackendEmit(i) ==
  /\ vision.pc = "v_stream"
  /\ i \in (1..Len(vision.stream)) \ vision.answered
  /\ vision' = [vision EXCEPT !.answered = @ \cup {i},
       !.emitted = Append(@, ImgProcResponse(vision.stream[i])),
       !.collected = Append(@, ImgProcResponse(vision.stream[i]))]
  /\ UNCHANGED authVars

\* the backend ends the response stream: toArray() emits its buffer and
\* lastValueFrom resolves with it
BackendEnd ==
  /\ vision.pc = "v_stream"
  /\ vision.ended
  /\ vision.answered = 1..Len(vision.stream)
  /\ vision' = [vision EXCEPT !.pc = "done",
       !.result = [NoVisionResult EXCEPT !.kind = "array", !.responses = vision.collected]]
  /\ UNCHANGED authVars

\* the HTTP response is sent
VisionReturn ==
  /\ vision.pc = "done"
  /\ vision' = VisionIdle
  /\ UNCHANGED authVars

\* ----------------------------------------------------------------- specs
\* requests to the guarded image endpoint arriving in the slots S
GuardSteps(S) ==
  \E c \in S :
    \/ \E s \in Sources, h \in Headers : GuardWithToken(c, s, h)
    \/ \E s \in Sources, h \in Headers : GuardAnonymous(c, s, h)
    \/ GuardDecide(c)
    \/ GuardConsumed(c)

\* the state after sign-up(e1, p1), with or without the following
\* verify-user of its key, completed in second 0 and answered
InitRegistered(V) ==
  /\ now = 0
  /\ ticks = 0
  /\ \E verified \in V :
       /\ users = [e \in AllEmails |->
            IF e = "e1"
            THEN Some([id |-> 1, email |-> e, password |-> Hash("p1", "s1"),
                       isVerified |-> verified])
            ELSE None]
       /\ verifyCache = [k \in Keys |->
            IF k = 1 /\ ~verified
            THEN Some([val |-> "e1", expiresAt |-> VERIFY_KEY_TTL])
            ELSE None]
       /\ keyAccepts = [k \in Keys |-> IF k = 1 /\ verified THEN 1 ELSE 0]
  /\ registered = [e \in AllEmails |-> IF e = "e1" THEN Some("p1") ELSE None]
  /\ refreshed = [e \in AllEmails |-> FALSE]
  /\ keyOwner = [k \in Keys |-> IF k = 1 THEN "e1" ELSE ""]
  /\ rejected = FALSE
  /\ nextId = 2
  /\ jwtCache = [e \in AllEmails |-> None]
  /\ usedKeys = 1
  /\ mails = {[key |-> 1, resiverEmail |-> "e1"]}
  /\ calls = [c \in AllCalls |-> Idle]
  /\ issued = {}
  /\ lastIssued = [e \in AllEmails |-> None]
  /\ consumed = {}
  /\ staleAccess = {}
  /\ signedIn = {}
  /\ superseded = {}
  /\ limiter = [s \in AllSources |-> None]
  /\ admits = [s \in AllSources |-> << >>]
  /\ arrivals = [s \in AllSources |-> << >>]
  /\ vision = VisionIdle

\* steps of sign-up and verify-user in the slots S
RegisterSteps(S) ==
  \E c \in S :
    \/ SignUpFind(c) \/ SignUpCache(c) \/ SignUpSave(c)
    \/ VerifyUserGet(c) \/ VerifyUserFind(c) \/ VerifyUserDel(c) \/ VerifyUserUpdate(c)

RegisterStarts(S, P) ==
  \E c \in S :
    \/ \E e \in Emails, p \in P : SignUpStart(c, e, p)
    \/ \E k \in Keys : VerifyUserStart(c, k)

\* sign-up for the emails E and verify-user
RegisterStartsFor(S, E, P) ==
  \E c \in S :
    \/ \E e \in E, p \in P : SignUpStart(c, e, p)
    \/ \E k \in Keys : VerifyUserStart(c, k)

\* ------------------------------------------------ GatewayAuthController
\* HttpException.getResponse() of a ConflictException: the body has
\* statusCode, no status (0 stands for undefined)
GetResponse(msg) == [status |-> 0, statusCode |-> 409, message |-> msg]

\* RpcValidationFilter.catch returns the RpcException instead of a stream
\* that fails with it: the transport hands it to the caller as the reply
\* value or as the error of the reply
Deliveries == {"value", "error"}

\* error.status || 500
ErrorStatus(error) == IF error.status # 0 THEN error.status ELSE 500

\* POST /auth/signup, /auth/signin: lastValueFrom settles; the value is
\* returned (201) or HttpException(error.message, error.status || 500) is
\* thrown
GatewayAuthReply(c) ==
  /\ calls[c].op \in {"signUp", "signIn"} /\ calls[c].pc = "done" /\ calls[c].http = 0
  /\ LET r == calls[c].result IN
       \E delivery \in Deliveries :
         calls' = [calls EXCEPT ![c] = [@ EXCEPT !.http =
           IF r.kind # "exception" THEN 201
           ELSE IF r.status = "ConflictException"
           THEN IF delivery = "value" THEN 201 ELSE ErrorStatus(GetResponse(r.message))
           ELSE 500]]
  /\ UNCHANGED <<clockVars, storeVars, cacheVars, usedKeys, mails, ghostVars, guardVars, vision>>

\* the HTTP response is sent and the slot becomes free
GatewayReturn(c) ==
  /\ calls[c].op \in {"signUp", "signIn"} => calls[c].http # 0
  /\ Return(c)

\* steps of sign-in in the slots S (hist: whether the history sets
\* consumed, staleAccess, signedIn and superseded are recorded)
SignInSteps(S, hist) ==
  \E c \in S :
    \/ SignInFind(c) \/ SignInCompare(c) \/ SignInGet(c) \/ SignInDel(c)
    \/ SignInSet(c, hist)

\* steps of refresh-token in the slots S
RefreshSteps(S, hist) ==
  \E c \in S :
    \/ RefreshGet(c) \/ RefreshDel(c) \/ RefreshGet2(c) \/ RefreshSet(c, hist)

\* the second del of refresh-token finds an entry only when another request
\* wrote one after the first del
RefreshRaceSteps(S) == \E c \in S : RefreshDel2(c)

\* refresh-token steps in which the token codec or the cache fails
RefreshFaultSteps(S) == \E c \in S : RefreshSignFails(c) \/ RefreshSetFails(c)

\* steps of validate-token in the slots S
ValidateSteps(S) == \E c \in S : ValidateGet(c) \/ ValidateFind(c)

Returns(S) == \E c \in S : Return(c)

SignInStarts(S, P) == \E c \in S, e \in Emails, p \in P : SignInStart(c, e, p)

SignInStartsFor(S, E, P) == \E c \in S, e \in E, p \in P : SignInStart(c, e, p)

RefreshStarts(S) == \E c \in S, t \in Presentable : RefreshStart(c, t)

ValidateStarts(S) == \E c \in S, t \in Presentable : ValidateStart(c, t)

\* sign-up and verify-user, two requests in flight, from the empty store
NextRegister ==
  \/ \E d \in HalfHours : Tick(d, MaxTicks)
  \/ RegisterStarts(CallIds, Passwords)
  \/ RegisterSteps(CallIds)
  \/ Returns(CallIds)

Spec == Init /\ [][NextRegister]_vars

\* all five operations of the identity service, two requests in flight,
\* within one second
NextIdentity ==
  \/ RegisterStarts(CallIds, {"p1"})
  \/ RegisterSteps(CallIds)
  \/ SignInStarts(CallIds, {"p1"})
  \/ RefreshStarts(CallIds)
  \/ ValidateStarts(CallIds)
  \/ SignInSteps(CallIds, FALSE)
  \/ RefreshSteps(CallIds, FALSE)
  \/ RefreshRaceSteps(CallIds)
  \/ ValidateSteps(CallIds)
  \/ Returns(CallIds)

SpecIdentity == Init /\ [][NextIdentity]_vars

\* the token protocol, one request at a time, tokens living up to expiry
NextToken ==
  \/ \E d \in Durations : Tick(d, MaxTicks)
  \/ SignInStarts(Sequential, Passwords)
  \/ RefreshStarts(Sequential)
  \/ ValidateStarts(Sequential)
  \/ SignInSteps(Sequential, TRUE)
  \/ RefreshSteps(Sequential, TRUE)
  \/ ValidateSteps(Sequential)
  \/ Returns(Sequential)

InitToken == InitRegistered(BOOLEAN)

SpecToken == InitToken /\ [][NextToken]_vars

\* the token protocol, two requests in flight
NextTokenRace ==
  \/ \E d \in Seconds : Tick(d, MaxRaceTicks)
  \/ SignInStarts(CallIds, {"p1"})
  \/ RefreshStarts(CallIds)
  \/ ValidateStarts(CallIds)
  \/ SignInSteps(CallIds, FALSE)
  \/ RefreshSteps(CallIds, FALSE)
  \/ RefreshRaceSteps(CallIds)
  \/ ValidateSteps(CallIds)
  \/ Returns(CallIds)

InitTokenRace == InitRegistered({FALSE})

SpecTokenRace == InitTokenRace /\ [][NextTokenRace]_vars

\* the guarded image endpoint in front of the token protocol
NextGuard ==
  \/ \E d \in HalfHours : Tick(d, MaxTicks)
  \/ SignInStarts(Sequential, {"p1"})
  \/ SignInSteps(Sequential, FALSE)
  \/ ValidateSteps(Sequential)
  \/ GuardSteps(Sequential)
  \/ Returns(Sequential)

SpecGuard == InitTokenRace /\ [][NextGuard]_vars

\* sign-up, verify-user and sign-in, one request at a time, from the empty
\* store
NextSignIn ==
  \/ RegisterStarts(Sequential, Passwords)
  \/ RegisterSteps(Sequential)
  \/ SignInStarts(Sequential, Passwords)
  \/ SignInSteps(Sequential, FALSE)
  \/ Returns(Sequential)

SpecSignIn == Init /\ [][NextSignIn]_vars

\* the token protocol, two requests in flight, the clock in steps of the
\* access-token lifetime
NextTokenExpiry ==
  \/ Tick(ACCESS_EXPIRES_IN, MaxRaceTicks)
  \/ SignInStarts(CallIds, {"p1"})
  \/ RefreshStarts(CallIds)
  \/ ValidateStarts(CallIds)
  \/ SignInSteps(CallIds, FALSE)
  \/ RefreshSteps(CallIds, FALSE)
  \/ RefreshRaceSteps(CallIds)
  \/ ValidateSteps(CallIds)
  \/ Returns(CallIds)

SpecTokenExpiry == InitTokenRace /\ [][NextTokenExpiry]_vars

\* sign-up and verify-user for two emails, two requests in flight, within
\* one second
NextTwoUsers ==
  \/ RegisterStartsFor(CallIds, AllEmails, {"p1"})
  \/ RegisterSteps(CallIds)
  \/ Returns(CallIds)

SpecTwoUsers == Init /\ [][NextTwoUsers]_vars

\* sign-up and sign-in through the gateway, one request at a time
NextGateway ==
  \/ RegisterStarts(Sequential, Passwords)
  \/ RegisterSteps(Sequential)
  \/ SignInStarts(Sequential, Passwords)
  \/ SignInSteps(Sequential, FALSE)
  \/ \E c \in Sequential : GatewayAuthReply(c)
  \/ \E c \in Sequential : GatewayReturn(c)

SpecGateway == Init /\ [][NextGateway]_vars

\* uploads to the image endpoint, one request at a time
NextVision ==
  \/ \E files \in Uploads, model \in Models : ProcessImage(files, model)
  \/ UnaryReply
  \/ StreamWrite
  \/ StreamEnd
  \/ \E i \in 1..MaxFiles : BackendEmit(i)
  \/ BackendEnd
  \/ VisionReturn

SpecVision == Init /\ [][NextVision]_vars

\* sign-in and refresh-token, one request at a time, with a token codec and
\* a cache that can fail during a refresh
NextRefreshFault ==
  \/ \E d \in Seconds : Tick(d, MaxRaceTicks)
  \/ SignInStarts(Sequential, {"p1"})
  \/ RefreshStarts(Sequential)
  \/ SignInSteps(Sequential, FALSE)
  \/ RefreshSteps(Sequential, FALSE)
  \/ RefreshFaultSteps(Sequential)
  \/ Returns(Sequential)

SpecRefreshFault == InitTokenRace /\ [][NextRefreshFault]_vars

\* all five operations of the identity service, one request at a time;
\* a handler that was started runs to its end and its reply is delivered
NextAck ==
  \/ RegisterStarts(Sequential, {"p1"})
  \/ SignInStarts(Sequential, {"p1"})
  \/ RefreshStarts(Sequential)
  \/ ValidateStarts(Sequential)
  \/ RegisterSteps(Sequential)
  \/ SignInSteps(Sequential, FALSE)
  \/ RefreshSteps(Sequential, FALSE)
  \/ ValidateSteps(Sequential)
  \/ Returns(Sequential)

HandlerProgress ==
  \/ RegisterSteps(Sequential)
  \/ SignInSteps(Sequential, FALSE)
  \/ RefreshSteps(Sequential, FALSE)
  \/ ValidateSteps(Sequential)
  \/ Returns(Sequential)

SpecAck == Init /\ [][NextAck]_vars /\ WF_vars(HandlerProgress)

\* the guarded image endpoint with a broker that can fail
NextGuardFault ==
  \/ NextGuard
  \/ \E c \in Sequential : GuardBrokerFails(c)

SpecGuardFault == InitTokenRace /\ [][NextGuardFault]_vars

\* all five operations for two emails, one request at a time
NextIsolation ==
  \/ \E d \in Seconds : Tick(d, MaxRaceTicks)
  \/ RegisterStartsFor(Sequential, AllEmails, {"p1"})
  \/ SignInStartsFor(Sequential, AllEmails, {"p1"})
  \/ RefreshStarts(Sequential)
  \/ ValidateStarts(Sequential)
  \/ RegisterSteps(Sequential)
  \/ SignInSteps(Sequential, FALSE)
  \/ RefreshSteps(Sequential, FALSE)
  \/ ValidateSteps(Sequential)
  \/ Returns(Sequential)

SpecIsolation == Init /\ [][NextIsolation]_vars

\* token-less requests of two sources to the guarded endpoint, one at a time
NextTwoSources ==
  \/ \E d \in HalfHours : Tick(d, MaxTicks)
  \/ \E c \in Sequential, s \in AllSources, h \in {NoHeader, EmptyHeader} :
       GuardAnonymous(c, s, h)
  \/ \E c \in Sequential : GuardConsumed(c)
  \/ Returns(Sequential)

SpecTwoSources == Init /\ [][NextTwoSources]_vars

\* some email has no verified user yet
Unverified ==
  \E e \in Emails : IF users[e] = None THEN TRUE ELSE ~users[e][1].isVerified

\* no request is in flight
Quiet == \A c \in CallIds : calls[c].op = "idle"

\* no token operation is in flight
Registering == \A c \in CallIds : calls[c].op \in {"idle", "signUp", "verifyUser"}

\* sign-up and verify-user with two requests in flight and the clock moving
\* in half hours for as long as the user is not verified; the token
\* operations served alone
NextStranded ==
  \/ Unverified /\ \E d \in HalfHours : Tick(d, MaxRaceTicks)
  \/ Unverified /\ Registering /\ RegisterStarts(CallIds, {"p1"})
  \/ RegisterSteps(CallIds)
  \/ Returns(CallIds)
  \/ Quiet /\ SignInStarts(Sequential, {"p1"})
  \/ Quiet /\ RefreshStarts(Sequential)
  \/ Quiet /\ ValidateStarts(Sequential)
  \/ SignInSteps(Sequential, FALSE)
  \/ RefreshSteps(Sequential, FALSE)
  \/ ValidateSteps(Sequential)

SpecStranded == Init /\ [][NextStranded]_vars

\* four token-less requests to the guarded endpoint, each in a slot of its
\* own, arriving and answered in any order
NextLimiter ==
  \/ \E d \in HalfHours : Tick(d, MaxTicks)
  \/ \E c \in AllCalls, s \in Sources, h \in {NoHeader, EmptyHeader} : GuardAnonymous(c, s, h)
  \/ \E c \in AllCalls : GuardConsumed(c)

SpecLimiter == Init /\ [][NextLimiter]_vars

\* ---------------------------------------------------------------- claims
NotRefreshMessage == "Provided token is not a refresh token"
NotAccessMessage == "Provided token is not an access token"

Done(c, op) == calls[c].op = op /\ calls[c].pc = "done"

\* the token of call c has not reached its exp
Unexpired(c) == now < calls[c].token.exp

\* C1: a refresh-token call made with an unexpired refresh token R after an
\* earlier refresh-token(R) returned a pair returns {isValid:false,
\* 'Provided token is not a refresh token'} and no pair.
C1_RefreshSingleUse ==
  \A c \in CallIds :
    (Done(c, "refreshToken") /\ calls[c].replay /\ Unexpired(c))
      => /\ calls[c].result.kind = "failure"
         /\ ~calls[c].result.isValid
         /\ calls[c].result.message = NotRefreshMessage

\* C2: validate-token with an unexpired access token that was issued to a
\* user before a successful refresh-token of that user returns isValid=false
\* with 'Provided token is not an access token'.
C2_StaleAccessRejected ==
  \A c \in CallIds :
    (Done(c, "validateToken") /\ calls[c].stale /\ Unexpired(c))
      => /\ ~calls[c].result.isValid
         /\ calls[c].result.message = NotAccessMessage

Overlap(c, d) == c \in calls[d].conc \/ d \in calls[c].conc

\* the pair a refresh-token call returned contains the token it consumed
Reissued(c) == calls[c].result.jwts.refreshToken = calls[c].token

\* C3: of two refresh-token calls that carry the same cached refresh token
\* and run concurrently, at most one returns a new token pair (a pair that
\* does not contain the consumed token again).
C3_OneConcurrentRefreshWins ==
  \A c, d \in CallIds :
    (c # d /\ Done(c, "refreshToken") /\ Done(d, "refreshToken")
       /\ calls[c].token = calls[d].token /\ Overlap(c, d))
      => ~(/\ calls[c].result.kind = "pair" /\ ~Reissued(c)
           /\ calls[d].result.kind = "pair" /\ ~Reissued(d))

C5_OnePairLivePerUser ==
  \A c \in CallIds :
    (calls[c].pc = "done" /\ calls[c].old /\ Unexpired(c))
      => /\ calls[c].op = "validateToken" => ~calls[c].result.isValid
         /\ calls[c].op = "refreshToken" => calls[c].result.kind # "pair"

\* C6: validate-token answers isValid=true only when the cache entry it
\* read for the token's email existed and held that very access token, and
\* refresh-token issues a pair only when the entry it read existed and held
\* that very refresh token.
C6_CacheIsRevocationOracle ==
  \A c \in CallIds :
    /\ (calls[c].op = "validateToken" /\ calls[c].result.isValid)
         => /\ calls[c].cached # None
            /\ calls[c].cached[1].accessToken = calls[c].token
    /\ (calls[c].op = "refreshToken" /\ calls[c].pc \in {"rt_del", "rt_get2", "rt_del2", "rt_set", "done"}
          /\ (calls[c].pc = "done" => calls[c].result.kind = "pair"))
         => /\ calls[c].cached # None
            /\ calls[c].cached[1].refreshToken = calls[c].token

\* C6 witness: a validate-token call accepted the cached access token while
\* another call at the same time is rejected for a token that is not cached.
C6_Witness ==
  \E c, d \in CallIds :
    /\ Done(c, "validateToken") /\ calls[c].result.isValid
    /\ calls[c].cached[1].accessToken = calls[c].token
    /\ calls[d].pc = "done" /\ calls[d].op \in {"validateToken", "refreshToken"}
    /\ calls[d].live
    /\ calls[d].result.kind \in {"validation", "failure"} /\ ~calls[d].result.isValid

\* C7: every verification key is accepted by at most one verify-user call.
C7_KeyAcceptedOnce == \A k \in Keys : keyAccepts[k] <= 1

\* C8: once a user's isVerified is true it is true in every later state.
C8_VerifiedStaysVerified ==
  [][\A e \in Emails :
       (users[e] # None /\ users[e][1].isVerified)
         => (users'[e] # None /\ users'[e][1].isVerified)]_vars

\* C8 witness: a sign-up that passed its existence lookup had its insert
\* rejected by the unique constraint, and the user of that email is verified.
C8_Witness ==
  \E c \in CallIds :
    /\ calls[c].op = "signUp" /\ calls[c].pc = "done"
    /\ calls[c].result.status = "QueryFailedError"
    /\ users[calls[c].email] # None
    /\ users[calls[c].email][1].isVerified

\* C9: for a request with a non-empty token header the guard's decision is
\* the isValid flag of the validate-token reply, and no step of the request
\* touches the rate limiter.
C9_TokenDecidesAdmission ==
  [][\A c \in CallIds :
       (calls'[c].hasToken /\ calls'[c] # calls[c])
         => /\ limiter' = limiter
            /\ admits' = admits
            /\ (calls'[c].op = "guard" /\ calls'[c].pc = "done")
                 => /\ calls[c].pc = "g_reply"
                    /\ (calls'[c].result.status = "admitted") = calls[c].result.isValid]_vars

\* C9 witness: a request with an invalid token was refused although the
\* source still had anonymous budget left.
C9_Witness ==
  \E c \in CallIds :
    /\ Done(c, "guard") /\ calls[c].hasToken
    /\ calls[c].result.status = "forbidden"
    /\ limiter[calls[c].src] # None
    /\ limiter[calls[c].src][1].value < RL_POINTS
    /\ now < limiter[calls[c].src][1].expiresAt

\* C10: for every source, no RL_POINTS + 1 admitted token-less requests lie
\* within one interval of RL_DURATION seconds.
C10_AtMostThreePerHour ==
  \A s \in Sources :
    Len(admits[s]) = RL_POINTS + 1
      => admits[s][RL_POINTS + 1] - admits[s][1] >= RL_DURATION

\* the first k token-less requests of source s arrived within one hour
WithinHour(s, k) ==
  /\ Len(arrivals[s]) >= k
  /\ arrivals[s][k] - arrivals[s][1] < RL_DURATION

Conflict(msg) == Exception("ConflictException", msg)

\* C12: sign-in(E, p) of an email registered with p0 returns a pair and
\* caches it when p = p0 and throws Conflict 'Password is incorrect'
\* otherwise; sign-in of an unregistered email throws Conflict 'User with such
\* email does not exist'; no step of a failing sign-in changes the cache or
\* the store.
C12_SignInChecksPassword ==
  [][\A c \in CallIds :
       (calls'[c].op = "signIn" /\ calls'[c] # calls[c])
         => LET e == calls'[c].email
                p == calls'[c].password
                res == calls'[c].result IN
              /\ calls'[c].pc = "done" =>
                   /\ registered[e] = None
                        => res = Conflict("User with such email does not exist")
                   /\ (registered[e] # None /\ registered[e] # Some(p))
                        => res = Conflict("Password is incorrect")
                   /\ registered[e] = Some(p)
                        => /\ res.kind = "pair"
                           /\ CacheGet(jwtCache', e, now') = Some(res.jwts)
              /\ (calls'[c].pc \in {"si_find", "si_compare"} \/ res.kind = "exception")
                   => /\ jwtCache' = jwtCache
                      /\ users' = users]_vars

\* C12 witness: a sign-in with a wrong password was refused while the pair
\* of an earlier sign-in is still cached.
C12_Witness ==
  \E c \in CallIds :
    /\ Done(c, "signIn")
    /\ calls[c].result = Conflict("Password is incorrect")
    /\ jwtCache[calls[c].email] # None

\* C13: a sign-up for an email that has a user record when the request is
\* taken fails with Conflict 'User with such email already exists', and no
\* step of it changes the store, the verification keys or the mails.
C13_DuplicateSignUpRejected ==
  [][\A c \in CallIds :
       (calls'[c].op = "signUp" /\ calls'[c].existed /\ calls'[c] # calls[c])
         => /\ users' = users /\ nextId' = nextId
            /\ verifyCache' = verifyCache /\ usedKeys' = usedKeys
            /\ mails' = mails
            /\ calls'[c].pc = "done"
                 => calls'[c].result = Conflict("User with such email already exists")]_vars

\* C13 witness: a duplicate sign-up was refused while the key of the first
\* sign-up is the only one ever generated.
C13_Witness ==
  \E c \in CallIds :
    /\ Done(c, "signUp") /\ calls[c].existed
    /\ calls[c].result.status = "ConflictException"
    /\ usedKeys = 1 /\ Cardinality(mails) <= 1

\* the sign-up call c passed its existence lookup
PassedLookup(c) == calls[c].op = "signUp" /\ calls[c].key # 0

\* the insert of sign-up call c went through
Inserted(c) == Done(c, "signUp") /\ calls[c].mailOutcome # ""

\* C14: of two sign-ups for one email that both passed the existence lookup,
\* exactly one inserts the user record and the other fails with a Conflict
\* error.
C14_LosingSignUpGetsConflict ==
  \A c, d \in CallIds :
    (c # d /\ Done(c, "signUp") /\ Done(d, "signUp")
       /\ PassedLookup(c) /\ PassedLookup(d)
       /\ calls[c].email = calls[d].email /\ Inserted(c))
      => /\ ~Inserted(d)
         /\ users[calls[c].email] # None
         /\ calls[d].result.kind = "exception"
         /\ calls[d].result.status = "ConflictException"

\* C15: a sign-up inserts the user record only after it wrote its key to the
\* cache, and every dispatched verification mail is for an email that has a
\* user record.
C15_CacheThenInsertThenMail ==
  /\ [](\A m \in mails : users[m.resiverEmail] # None)
  /\ [][\A c \in CallIds :
          (calls[c].op = "signUp" /\ users'[calls[c].email] # users[calls[c].email]
             /\ calls'[c] # calls[c])
            => calls[c].wrote]_vars

\* C15 witness: a finished sign-up whose key is cached, whose user record is
\* stored and whose mail is dispatched.
C15_Witness ==
  \E c \in CallIds :
    /\ Inserted(c) /\ calls[c].wrote
    /\ CacheGet(verifyCache, calls[c].key, now) = Some(calls[c].email)
    /\ users[calls[c].email] # None
    /\ [key |-> calls[c].key, resiverEmail |-> calls[c].email] \in mails

\* C16: a sign-up whose cache write and insert succeeded returns its success
\* result and its user record stands, whatever happens to the mail dispatch.
C16_MailFailureSwallowed ==
  \A c \in CallIds :
    Inserted(c)
      => /\ calls[c].result.kind = "status"
         /\ calls[c].result.status = "success"
         /\ users[calls[c].email] # None

WrongRole(c) ==
  \/ calls[c].op = "refreshToken" /\ calls[c].cached # None
       /\ calls[c].cached[1].accessToken = calls[c].token
  \/ calls[c].op = "validateToken" /\ calls[c].cached # None
       /\ calls[c].cached[1].refreshToken = calls[c].token

\* C18: refresh-token with the cached access token answers 'Provided token
\* is not a refresh token', validate-token with the cached refresh token
\* answers 'Provided token is not an access token', and no step of a
\* refresh-token carrying an access token or of a validate-token changes the
\* cached pair.
C18_TokensKeepTheirRole ==
  /\ [](\A c \in CallIds :
          (calls[c].pc = "done" /\ WrongRole(c))
            => /\ ~calls[c].result.isValid
               /\ calls[c].op = "refreshToken"
                    => /\ calls[c].result.kind = "failure"
                       /\ calls[c].result.message = NotRefreshMessage
               /\ calls[c].op = "validateToken"
                    => calls[c].result.message = NotAccessMessage)
  /\ [][\A c \in CallIds :
          (/\ calls'[c] # calls[c]
           /\ \/ calls'[c].op = "validateToken"
              \/ calls'[c].op = "refreshToken" /\ ~calls'[c].token.isRefreshToken)
            => jwtCache' = jwtCache]_vars

\* C18 witness: refresh-token was refused for the cached access token and
\* the pair it read is still cached.
C18_Witness ==
  \E c \in CallIds :
    /\ Done(c, "refreshToken") /\ WrongRole(c)
    /\ calls[c].result.message = NotRefreshMessage
    /\ CacheGet(jwtCache, calls[c].token.email, now) = calls[c].cached

\* C19: refresh-token with a correctly signed, unexpired token that finds no
\* cache entry for the token's email answers {isValid:false, 'Provided token
\* is not a refresh token'}.
C19_MissingEntryIsNotRefresh ==
  \A c \in CallIds :
    (Done(c, "refreshToken") /\ calls[c].live /\ calls[c].missing)
      => /\ calls[c].result.kind = "failure"
         /\ ~calls[c].result.isValid
         /\ calls[c].result.message = NotRefreshMessage

Failed(c) ==
  /\ calls[c].pc = "done" /\ calls[c].op \in {"refreshToken", "validateToken"}
  /\ calls[c].result.kind \in {"failure", "validation"} /\ ~calls[c].result.isValid

\* C21: the message of a failed refresh-token or validate-token is
\* 'Token expired' for an expired token, 'Invalid token' for a malformed one,
\* the not-a-refresh-token / not-an-access-token message for those errors and
\* 'Token verification failed' for every other error.
C21_MessageFollowsErrorKind ==
  \A c \in CallIds :
    Failed(c) =>
      LET err == calls[c].result.err
          msg == calls[c].result.message IN
        /\ err = "TokenExpiredError" => msg = "Token expired"
        /\ err = "JsonWebTokenError" => msg = "Invalid token"
        /\ err = "NotRefreshTokenError" => msg = NotRefreshMessage
        /\ err = "NotAccessTokenError" => msg = NotAccessMessage
        /\ err \notin {"TokenExpiredError", "JsonWebTokenError", "NotRefreshTokenError",
                        "NotAccessTokenError"} => msg = "Token verification failed"
        /\ calls[c].token.kind # "jwt" => msg = "Invalid token"
        /\ (calls[c].token.kind = "jwt" /\ ~calls[c].live) => msg = "Token expired"
        /\ calls[c].missing => msg = "Token verification failed"

\* C21 witness: one call failed on an expired token while another failed on
\* a token in the wrong role.
C21_Witness ==
  \E c, d \in CallIds :
    /\ Failed(c) /\ calls[c].result.message = "Token expired"
    /\ Failed(d) /\ calls[d].result.message \in {NotAccessMessage, NotRefreshMessage}

\* C22: with no sign-in or refresh of the user in between, validate-token on
\* the access token of the pair a refresh-token returned answers isValid=true,
\* and refresh-token on its refresh token returns a pair that differs from the
\* pair it consumed.
C22_RefreshedPairIsLive ==
  \A c \in CallIds :
    (calls[c].pc = "done" /\ calls[c].fresh /\ calls[c].live /\ Unexpired(c))
      => /\ (calls[c].op = "validateToken" /\ ~calls[c].token.isRefreshToken)
              => calls[c].result.isValid
         /\ (calls[c].op = "refreshToken" /\ calls[c].token.isRefreshToken)
              => /\ calls[c].result.kind = "pair"
                 /\ ~Reissued(c)

\* the verify-user call c takes its last step and returns success
VerifySucceeds(c) ==
  /\ calls[c].op = "verifyUser" /\ calls[c].pc = "vu_update"
  /\ calls'[c].pc = "done" /\ calls'[c].result.status = "success"

\* C23: once verify-user(K) returned success for a key K that sign-up wrote
\* for email E, the cache does not hold K and the record of E has
\* isVerified=true; the step that returns success changes no other record.
C23_VerifyConsumesKeyAndMarksOwner ==
  /\ [](\A k \in Keys :
          keyAccepts[k] > 0
            => /\ CacheGet(verifyCache, k, now) = None
               /\ keyOwner[k] \in AllEmails
               /\ users[keyOwner[k]] # None
               /\ users[keyOwner[k]][1].isVerified)
  /\ [][\A c \in CallIds :
          VerifySucceeds(c)
            => \A e \in AllEmails \ {keyOwner[calls[c].key]} : users'[e] = users[e]]_vars

\* C23 witness: both users are registered, the key of one was accepted and
\* the other user is still unverified.
C23_Witness ==
  \E k \in Keys, e \in AllEmails :
    /\ keyAccepts[k] > 0 /\ keyOwner[k] # e
    /\ users[keyOwner[k]] # None /\ users[keyOwner[k]][1].isVerified
    /\ users[e] # None /\ ~users[e][1].isVerified
    /\ \E c \in CallIds : Done(c, "verifyUser") /\ calls[c].key = k
                             /\ calls[c].result.message = "User has been verified"

C25_ConflictIs409 ==
  \A c \in CallIds :
    (calls[c].op \in {"signUp", "signIn"} /\ calls[c].pc = "done" /\ calls[c].http # 0
       /\ calls[c].result = Conflict(calls[c].result.message))
      => calls[c].http = 409

\* C26: a request with exactly one file makes exactly one unary ProcessImage
\* call and no batch call; one with two or more files makes exactly one
\* ProcessImageBatch call that carries all files and no unary call; one with
\* no file fails with BadRequest 'No files uploaded' and calls nothing.
C26_RoutesByFileCount ==
  vision.pc # "idle" =>
    LET n == Len(vision.files) IN
      /\ n = 1 => /\ vision.unary = <<ImgProcRequest(vision.files[1], vision.model)>>
                  /\ vision.batches = 0 /\ vision.subject = << >>
      /\ n >= 2 => /\ vision.batches = 1 /\ vision.unary = << >>
                   /\ Len(vision.subject) = n
                   /\ \A i \in 1..n : vision.subject[i].image = vision.files[i]
                   /\ vision.pc = "done" => /\ vision.result.kind = "array"
                                            /\ Len(vision.stream) = n
      /\ n = 0 => /\ vision.pc = "done"
                  /\ vision.result.kind = "exception"
                  /\ vision.result.status = "BadRequestException"
                  /\ vision.result.message = "No files uploaded"
                  /\ vision.unary = << >> /\ vision.batches = 0

\* C26 witness: a request with one file was answered by the unary call.
C26_Witness ==
  /\ vision.pc = "done" /\ Len(vision.files) = 1
  /\ Len(vision.unary) = 1 /\ vision.batches = 0
  /\ vision.result.kind = "response"

\* the backend answered the requests in the order it received them
AnsweredInOrder ==
  /\ Len(vision.emitted) = Len(vision.stream)
  /\ \A i \in 1..Len(vision.emitted) : vision.emitted[i] = ImgProcResponse(vision.stream[i])

\* C27: for a batch of n >= 2 files the requests reach the stream in upload
\* order, the stream is completed after the last one, the result is the
\* array of responses in the order the backend emitted them, and with a
\* backend answering in request order its i-th element describes the i-th
\* uploaded file.
C27_BatchKeepsOrder ==
  LET n == Len(vision.files) IN
    (vision.pc # "idle" /\ n >= 2) =>
      /\ Len(vision.stream) <= n
      /\ \A i \in 1..Len(vision.stream) :
           vision.stream[i] = ImgProcRequest(vision.files[i], vision.model)
      /\ vision.ended => Len(vision.stream) = n
      /\ vision.pc = "done" =>
           /\ vision.ended
           /\ vision.result.responses = vision.emitted
           /\ AnsweredInOrder =>
                \A i \in 1..n :
                  vision.result.responses[i] =
                    ImgProcResponse(ImgProcRequest(vision.files[i], vision.model))

\* C27 witness: a batch of three files, the first two different, answered in
\* request order.
C27_Witness ==
  /\ vision.pc = "done" /\ Len(vision.files) = 3
  /\ vision.files[1] # vision.files[2]
  /\ AnsweredInOrder
  /\ vision.result.kind = "array" /\ Len(vision.result.responses) = 3

\* the verify-user call c takes its last step and answers that the user does
\* not exist or is already verified
VerifyRejectsUser(c) ==
  /\ calls[c].op = "verifyUser" /\ calls[c].pc # "done" /\ calls'[c].pc = "done"
  /\ calls'[c].result.message \in {"User with such email does not exist",
                                    "User is already verified"}

\* C28: a verify-user call that fails with 'User with such email does not
\* exist' or 'User is already verified' leaves the cache entry of its key in
\* place.
C28_KeyKeptWhenUserRejected ==
  [][\A c \in CallIds :
       VerifyRejectsUser(c) => verifyCache'[calls[c].key] = verifyCache[calls[c].key]]_vars

\* C29: a verify-user(K) call made after verify-user(K) succeeded answers
\* 'User is already verified' and the user stays verified.
C29_SecondClickAlreadyVerified ==
  \A c \in CallIds :
    (Done(c, "verifyUser") /\ calls[c].replay)
      => /\ calls[c].result.message = "User is already verified"
         /\ users[keyOwner[calls[c].key]] # None
         /\ users[keyOwner[calls[c].key]][1].isVerified

\* C30: a completed refresh-token call that read a cached pair leaves the
\* cache holding that pair or the pair it issued, never no pair.
C30_RefreshReplacesAtomically ==
  \A c \in CallIds :
    (Done(c, "refreshToken") /\ calls[c].cached # None)
      => LET e == calls[c].token.email IN
           /\ jwtCache[e] # None
           /\ \/ jwtCache[e][1].val = calls[c].cached[1]
              \/ /\ calls[c].result.kind = "pair"
                 /\ jwtCache[e][1].val = calls[c].result.jwts

\* a refresh-token call that was rejected for its token
Rejected(rec) ==
  /\ rec.op = "refreshToken" /\ rec.pc = "done"
  /\ rec.result.kind = "failure"
  /\ rec.result.err \in {"TokenExpiredError", "JsonWebTokenError", "NotRefreshTokenError"}

\* C31: the steps of a refresh-token call that is rejected (expired or
\* invalid token, wrong role, not the cached refresh token) leave the cache
\* unchanged; afterwards validate-token on the current access token answers
\* isValid=true and refresh-token on the current refresh token returns a pair.
C31_RejectedRefreshKeepsCache ==
  /\ [][\A c \in CallIds :
          (calls'[c] # calls[c] /\ Rejected(calls'[c])) => jwtCache' = jwtCache]_vars
  /\ [](\A c \in CallIds :
          (calls[c].pc = "done" /\ calls[c].current /\ calls[c].live /\ Unexpired(c))
            => /\ (calls[c].op = "validateToken" /\ ~calls[c].token.isRefreshToken)
                    => calls[c].result.isValid
               /\ (calls[c].op = "refreshToken" /\ calls[c].token.isRefreshToken)
                    => calls[c].result.kind = "pair")

\* C31 witness: after a rejected refresh-token, the current refresh token
\* of the user was refreshed.
C31_Witness ==
  \E c \in CallIds :
    /\ Done(c, "refreshToken") /\ calls[c].current
    /\ calls[c].token.isRefreshToken
    /\ calls[c].result.kind = "pair"

\* the call c returns a pair in this step
Issues(c) ==
  /\ calls[c].pc \in {"si_set", "rt_set"}
  /\ calls'[c].pc = "done" /\ calls'[c].result.kind = "pair"

\* C32: the tokens a successful sign-in or refresh-token returns were not
\* returned before; a refresh returns a refresh token other than the one it
\* consumed.
C32_IssuedTokensAreNew ==
  [][\A c \in CallIds :
       Issues(c)
         => /\ calls'[c].result.jwts.accessToken \notin issued
            /\ calls'[c].result.jwts.refreshToken \notin issued
            /\ calls[c].op = "refreshToken"
                 => calls'[c].result.jwts.refreshToken # calls[c].token]_vars

\* the slot c holds a message the identity service took from the queue
Taken(c) ==
  calls[c].op \in {"signUp", "signIn", "refreshToken", "validateToken", "verifyUser"}

\* C33: every message the identity service takes from the queue is
\* eventually acknowledged, and never more than once.
C33_EveryMessageAcked ==
  /\ \A c \in CallIds : [](Taken(c) => <>(calls[c].acks = 1))
  /\ [](\A c \in CallIds : calls[c].acks <= 1)

\* the token-carrying request in slot c ends in this step because its
\* validate-token round trip failed
RoundTripFails(c) ==
  /\ calls[c].guarded /\ calls[c].pc # "done"
  /\ calls'[c].pc = "done" /\ calls'[c].result.status \notin {"admitted", "forbidden"}

\* C34: when the validate-token round trip of a token-carrying request
\* fails, the request is not admitted, it is not treated as an anonymous
\* request and no rate-limit point is consumed for its source.
C34_BrokerErrorPropagates ==
  [][\A c \in CallIds :
       RoundTripFails(c)
         => /\ calls'[c].result = GuardResult("error")
            /\ ~calls'[c].anonymous
            /\ calls'[c].hasToken
            /\ limiter' = limiter /\ admits' = admits /\ arrivals' = arrivals]_vars

\* C34 witness: a token-carrying request ended with the error of its round
\* trip while the source has points consumed by earlier token-less requests.
C34_Witness ==
  \E c \in CallIds :
    /\ calls[c].op = "guard" /\ calls[c].pc = "done"
    /\ calls[c].hasToken /\ calls[c].token.kind = "jwt"
    /\ calls[c].result = GuardResult("error")
    /\ limiter[calls[c].src] # None
    /\ limiter[calls[c].src][1].value = RL_POINTS

\* the call in slot c starts or takes a step
Acting(c) ==
  /\ calls'[c].op # "idle"
  /\ calls[c].op = "idle" \/ calls'[c].pc # calls[c].pc

\* the email the call in slot c concerns: by its credentials, by the claims
\* of its token, or by the sign-up that wrote its key
Concerns(c) ==
  CASE calls'[c].op \in {"signUp", "signIn"} -> calls'[c].email
    [] calls'[c].op \in {"refreshToken", "validateToken"} -> calls'[c].token.email
    [] calls'[c].op = "verifyUser" -> keyOwner'[calls'[c].key]
    [] OTHER -> ""

\* the keys the cache holds for email e
PendingKeys(e) == {k \in Keys : verifyCache[k] # None /\ verifyCache[k][1].val = e}

\* C35: a step of an operation that concerns one email leaves the user
\* record, the cached token pair and the pending verification keys of every
\* other email unchanged.
C35_UsersAreIsolated ==
  [][\A c \in CallIds, e \in AllEmails :
       (Acting(c) /\ Concerns(c) # e)
         => /\ users'[e] = users[e]
            /\ jwtCache'[e] = jwtCache[e]
            /\ \A k \in PendingKeys(e) : verifyCache'[k] = verifyCache[k]]_vars

\* C35 witness: one user was verified and refreshed its pair while the
\* other user, unverified, keeps its record, its cached pair and its key.
C35_Witness ==
  \E c \in CallIds, e \in AllEmails :
    /\ Done(c, "refreshToken") /\ calls[c].result.kind = "pair"
    /\ calls[c].token.email # e
    /\ users[calls[c].token.email][1].isVerified
    /\ users[e] # None /\ ~users[e][1].isVerified
    /\ jwtCache[e] # None
    /\ PendingKeys(e) # {}

\* C36: a token-less request of one source changes no counter of another
\* source, and the first three token-less requests of a source within its
\* window are admitted whatever the other sources did.
C36_BudgetsArePerSource ==
  /\ [][\A c \in CallIds, s \in AllSources :
          (Acting(c) /\ calls'[c].anonymous /\ calls'[c].src # s)
            => /\ limiter'[s] = limiter[s]
               /\ admits'[s] = admits[s]
               /\ arrivals'[s] = arrivals[s]]_vars
  /\ [](\A c \in CallIds :
          (Done(c, "guard") /\ calls[c].anonymous /\ calls[c].nth \in 1..RL_POINTS
             /\ WithinHour(calls[c].src, calls[c].nth))
            => calls[c].result.status = "admitted")

\* C36 witness: one source has used up its budget and was refused, and the
\* third request of the other source is admitted.
C36_Witness ==
  \E c \in CallIds, s \in AllSources :
    /\ Done(c, "guard") /\ calls[c].anonymous /\ calls[c].src # s
    /\ calls[c].nth = RL_POINTS /\ WithinHour(calls[c].src, RL_POINTS)
    /\ calls[c].result.status = "admitted"
    /\ limiter[s] # None /\ now < limiter[s][1].expiresAt
    /\ limiter[s][1].value > RL_POINTS

\* the cache holds an unexpired verification key for email e
KeyCached(e) ==
  \E k \in Keys :
    /\ verifyCache[k] # None
    /\ now < verifyCache[k][1].expiresAt
    /\ verifyCache[k][1].val = e

\* a call in flight is about to write a key for e, or has read a key of e
KeyInHand(e) ==
  \E c \in CallIds :
    \/ calls[c].op = "signUp" /\ calls[c].pc = "su_cache" /\ calls[c].email = e
    \/ /\ calls[c].op = "verifyUser" /\ calls[c].email = e
       /\ calls[c].pc \in {"vu_find", "vu_del", "vu_update"}

\* the user of e is registered and unverified, no key of e is cached and
\* none is in the hands of a call in flight
Stranded(e) ==
  /\ users[e] # None /\ ~users[e][1].isVerified
  /\ ~KeyCached(e)
  /\ ~KeyInHand(e)

====
